---- MODULE Spec2Model ----
(***************************************************************************)
(* Trip decision engine of the Bengaluru commute companion:                *)
(*   app/rule_engine.py    Rule.applies, ACTIVE_RULES, check_route,        *)
(*                         suggest_vehicle_type, resolve_vehicle_type      *)
(*   app/traffic_app.py    build_feature_payload, arrival_time_label and   *)
(*                         the request script                              *)
(*   app/traffic_model.py  predict_metrics                                 *)
(*   app/route_utils.py    get_coords, compute_distance_km,                *)
(*                         _fetch_route_path, build_route_deck             *)
(*                                                                         *)
(* Python lists are sequences and dicts are functions on their key set.   *)
(* An Optional value is a list of length 0 (None) or 1.                    *)
(***************************************************************************)
EXTENDS Integers, Sequences, FiniteSets, TLC

VARIABLES
    \* ---- rule_engine.py: one evaluation of Rule.applies ----
    rule,               \* the Rule under evaluation
    ctx,                \* the RouteContext under evaluation
    applies_done,       \* Rule.applies has returned
    applies_result,     \* the value it returned
    \* ---- traffic_app.py: one run of the request script ----
    pc,                 \* position of the script
    df,                 \* the historical table (list of rows)
    inputs,             \* the sidebar values of this run
    str_hash,           \* abs(hash(name)) % 10_000 of this process, per name
    start_payload, start_snapshot, start_trend,
    dest_payload, dest_snapshot, dest_trend,
    start_prediction, dest_prediction,
    predict_calls,      \* calls of predict_metrics made so far
    rule_checks,        \* calls of check_route made so far
    start_restrictions, dest_restrictions,
    active_restrictions,\* dict name -> Rule, as the list of its values
    restriction_details,\* the lines written for a blocked trip
    net_requests,       \* requests.get calls made so far
    route_geom,         \* RouteGeometry returned by build_route_deck
    trip,               \* the composed figures (distance, minutes, cost, labels)
    \* ---- one call of a pure function ----
    call,               \* the function called and its arguments
    returned,           \* None (<<>>) until it returns, then <<value>>
    \* ---- route_utils.py: get_coords over interpreter runs ----
    process,            \* number of the running interpreter (0: none)
    geocoded,           \* the get_coords calls made so far, with their results
    \* ---- rule_engine.py: the module globals shared by the sessions ----
    registry,           \* the list ACTIVE_RULES and the Rule objects in it
    evals               \* per session: its context and its place in check_route

ruleVars == <<rule, ctx, applies_done, applies_result>>
featureVars == <<start_payload, start_snapshot, start_trend,
                 dest_payload, dest_snapshot, dest_trend>>
predictVars == <<start_prediction, dest_prediction, predict_calls>>
checkVars == <<rule_checks, start_restrictions, dest_restrictions,
               active_restrictions, restriction_details>>
routeVars == <<net_requests, route_geom>>
calcVars == <<call, returned>>
geocodeVars == <<process, geocoded>>
sharedVars == <<registry, evals>>
unitVars == <<calcVars, geocodeVars, sharedVars>>
vars == <<ruleVars, pc, df, inputs, str_hash, featureVars, predictVars, checkVars, routeVars, trip, unitVars>>

----------------------------------------------------------------------------
(* Bounds and input universes *)

\* longest restriction list of a drawn Rule
MaxListLen == 1

RuleAreas    == {"M.G. Road", "Hebbal"}
RuleRoads    == {"CMH Road", "Hebbal Flyover"}
RuleVehicles == {"Mini", "MHCV"}
RuleDays     == {0, 5}
StartHours   == {8, 22}
EndHours     == {6, 8, 21}
Hours        == 0 .. 23
Weekdays     == 0 .. 6

\* duplicate-free lists over U of length at most n
ListsOver(U, n) ==
    {s \in UNION {[1 .. k -> U] : k \in 0 .. n} :
        \A i, j \in DOMAIN s : i # j => s[i] # s[j]}

----------------------------------------------------------------------------
(* rule_engine.py *)

\* x in list
In(x, list) == \E i \in DOMAIN list : list[i] = x

RouteContext(area, road, vehicle_type, planned_hour, day_of_week) ==
    [area |-> area, road |-> road, vehicle_type |-> vehicle_type,
     planned_hour |-> planned_hour, day_of_week |-> day_of_week]

Rule(name, areas, roads, vehicle_types, start_hour, end_hour, days, recommendation) ==
    [name |-> name,
     recommendation |-> recommendation,
     restricted_areas |-> areas,
     restricted_roads |-> roads,
     restricted_vehicle_types |-> vehicle_types,
     start_hour |-> start_hour, end_hour |-> end_hour, days |-> days]

\* a plausible slip: an empty day list read as "no day" instead of "every day"
applies_EmptyDaysRestrict(r, c) ==
    LET area_match == Len(r.restricted_areas) = 0 \/ In(c.area, r.restricted_areas)
        road_match == Len(r.restricted_roads) = 0 \/ In(c.road, r.restricted_roads)
        vehicle_match == Len(r.restricted_vehicle_types) = 0
                            \/ In(c.vehicle_type, r.restricted_vehicle_types)
        hour_match == r.start_hour <= c.planned_hour /\ c.planned_hour < r.end_hour
        day_match == In(c.day_of_week, r.days)
    IN  area_match /\ road_match /\ vehicle_match /\ hour_match /\ day_match

\* a plausible slip: the road predicate left out of the returned conjunction
applies_NoRoad(r, c) ==
    LET area_match == Len(r.restricted_areas) = 0 \/ In(c.area, r.restricted_areas)
        vehicle_match == Len(r.restricted_vehicle_types) = 0
                            \/ In(c.vehicle_type, r.restricted_vehicle_types)
        hour_match == r.start_hour <= c.planned_hour /\ c.planned_hour < r.end_hour
        day_match == Len(r.days) = 0 \/ In(c.day_of_week, r.days)
    IN  area_match /\ vehicle_match /\ hour_match /\ day_match

\* a plausible slip: the hour window closed at end_hour
applies_ClosedWindow(r, c) ==
    LET area_match == Len(r.restricted_areas) = 0 \/ In(c.area, r.restricted_areas)
        road_match == Len(r.restricted_roads) = 0 \/ In(c.road, r.restricted_roads)
        vehicle_match == Len(r.restricted_vehicle_types) = 0
                            \/ In(c.vehicle_type, r.restricted_vehicle_types)
        hour_match == r.start_hour <= c.planned_hour /\ c.planned_hour <= r.end_hour
        day_match == Len(r.days) = 0 \/ In(c.day_of_week, r.days)
    IN  area_match /\ road_match /\ vehicle_match /\ hour_match /\ day_match

\* Rule.applies
applies(r, c) ==
    LET area_match == Len(r.restricted_areas) = 0 \/ In(c.area, r.restricted_areas)
        road_match == Len(r.restricted_roads) = 0 \/ In(c.road, r.restricted_roads)
        vehicle_match == Len(r.restricted_vehicle_types) = 0
                            \/ In(c.vehicle_type, r.restricted_vehicle_types)
        hour_match == r.start_hour <= c.planned_hour /\ c.planned_hour < r.end_hour
        day_match == Len(r.days) = 0 \/ In(c.day_of_week, r.days)
    IN  area_match /\ road_match /\ vehicle_match /\ hour_match /\ day_match

\* a plausible slip: weekdays counted from Sunday = 0
CBD_HEAVY_VEHICLE_BAN_SundayFirst ==
    Rule("CBD heavy vehicle curfew",
         <<"M.G. Road", "Indiranagar", "Koramangala", "Jayanagar">>,
         <<>>,
         <<"LCV", "MHCV", "HCV">>,
         8, 21, <<1, 2, 3, 4, 5>>,
         "Schedule dock transfers pre-08:00 or post-21:00, or hand over to micro-hubs.")

CBD_HEAVY_VEHICLE_BAN ==
    Rule("CBD heavy vehicle curfew",
         <<"M.G. Road", "Indiranagar", "Koramangala", "Jayanagar">>,
         <<>>,
         <<"LCV", "MHCV", "HCV">>,
         8, 21, <<0, 1, 2, 3, 4>>,
         "Schedule dock transfers pre-08:00 or post-21:00, or hand over to micro-hubs.")

NIGHT_ENTRY_ONLY ==
    Rule("Outer Ring night entry",
         <<"Hebbal", "Yeshwanthpur">>,
         <<"Hebbal Flyover", "Tumkur Road">>,
         <<"MHCV", "HCV">>,
         6, 22, <<>>,
         "Hold at peripheral yards and use relay fleets during daylight hours.")

SCHOOL_ZONE_CAP ==
    Rule("School zone speed cap",
         <<"Indiranagar", "Koramangala">>,
         <<"CMH Road", "Sarjapur Road">>,
         <<"LCV", "MHCV", "HCV">>,
         7, 16, <<0, 1, 2, 3, 4, 5>>,
         "Buffer +12 minutes in ETA or reroute via parallel collectors.")

BUS_PRIORITY_LANES ==
    Rule("Bus priority lane",
         <<"Whitefield">>,
         <<"ITPL Main Road">>,
         <<"LCV", "MHCV">>,
         7, 11, <<0, 1, 2, 3, 4>>,
         "Switch to electric vans or schedule between 11:00-15:00.")

ACTIVE_RULES ==
    <<CBD_HEAVY_VEHICLE_BAN, NIGHT_ENTRY_ONLY, SCHOOL_ZONE_CAP, BUS_PRIORITY_LANES>>

\* [x for x in list if keep[x]], in list order
RECURSIVE Filter(_, _)
Filter(list, keep) ==
    IF list = <<>> THEN <<>>
    ELSE IF keep[Head(list)] THEN <<Head(list)>> \o Filter(Tail(list), keep)
         ELSE Filter(Tail(list), keep)

\* check_route
check_route(c) ==
    Filter(ACTIVE_RULES,
           [r \in {ACTIVE_RULES[i] : i \in DOMAIN ACTIVE_RULES} |-> applies(r, c)])

\* a plausible slip: the breakpoints moved to the class above
suggest_vehicle_type_OpenBreaks(payload_tons) ==
    IF payload_tons < 150 THEN "Mini"
    ELSE IF payload_tons < 350 THEN "LCV"
    ELSE IF payload_tons < 750 THEN "MHCV"
    ELSE "HCV"

\* suggest_vehicle_type; payload_tons in hundredths of a ton
suggest_vehicle_type(payload_tons) ==
    IF payload_tons <= 150 THEN "Mini"
    ELSE IF payload_tons <= 350 THEN "LCV"
    ELSE IF payload_tons <= 750 THEN "MHCV"
    ELSE "HCV"

\* a plausible slip: the operands of `or` the other way round
resolve_vehicle_type_SuggestionFirst(user_choice, payload_tons) ==
    suggest_vehicle_type(payload_tons)

\* resolve_vehicle_type: user_choice or suggest_vehicle_type(payload_tons);
\* None and the empty string are false
resolve_vehicle_type(user_choice, payload_tons) ==
    IF user_choice # <<>> /\ user_choice[1] # "" THEN user_choice[1]
    ELSE suggest_vehicle_type(payload_tons)

----------------------------------------------------------------------------
(* data_utils.py, traffic_app.py: the historical table and the feature     *)
(* builder.  Speeds are in hundredths of km/h, volumes in vehicles/day.    *)

\* most rows of a drawn historical table
MaxRows == 2

\* get_feature_target_frames: feature_cols, the schema the model is fit on
FeatureNames ==
    <<"Area Name", "Road/Intersection Name", "Traffic Volume", "Average Speed",
      "Road Capacity Utilization", "Incident Reports", "Environmental Impact",
      "Public Transport Usage", "Traffic Signal Compliance", "Parking Usage",
      "Pedestrian and Cyclist Count", "Weather Conditions",
      "Roadwork and Construction Activity", "day_of_week", "month", "is_weekend">>

FeatureSet == {FeatureNames[i] : i \in DOMAIN FeatureNames}

\* columns of the table after load_traffic_data
TableColumns == FeatureSet \cup {"Date"}

\* a timestamp; DateKey orders timestamps of one year
Date(month, day, dayofweek) == [month |-> month, day |-> day, dayofweek |-> dayofweek]
DateKey(date) == date.month * 100 + date.day

\* one row as load_traffic_data leaves it: the csv columns plus day_of_week,
\* month and is_weekend derived from Date
LoadedRow(area, road, date, volume, speed, other, weather) ==
    [col \in TableColumns |->
        CASE col = "Area Name" -> area
          [] col = "Road/Intersection Name" -> road
          [] col = "Date" -> date
          [] col = "Traffic Volume" -> volume
          [] col = "Average Speed" -> speed
          [] col = "Weather Conditions" -> weather
          [] col = "Roadwork and Construction Activity" -> "No"
          [] col = "day_of_week" -> date.dayofweek
          [] col = "month" -> date.month
          [] col = "is_weekend" -> IF date.dayofweek >= 5 THEN 1 ELSE 0
          [] OTHER -> other]

\* the rows a drawn table is made of; the second holds zeros throughout
SampleRows ==
    { LoadedRow("M.G. Road", "Trinity Circle", Date(1, 5, 2), 50590, 4193, 35, "Clear"),
      LoadedRow("M.G. Road", "CMH Road", Date(1, 5, 2), 0, 0, 0, "Rain"),
      LoadedRow("Indiranagar", "CMH Road", Date(2, 20, 6), 27500, 3245, 60, "Fog") }

\* the drawn tables: up to MaxRows different sample rows in any order
HistoricalTables ==
    {t \in UNION {[1 .. n -> SampleRows] : n \in 0 .. MaxRows} :
        \A i, j \in DOMAIN t : i # j => t[i] # t[j]}

\* df[(df["Area Name"] == area) & (df["Road/Intersection Name"] == road)]
Matching(table, area, road) ==
    {i \in DOMAIN table :
        table[i]["Area Name"] = area /\ table[i]["Road/Intersection Name"] = road}

\* .sort_values("Date"): the row orders the default (quicksort) kind may
\* leave, rows of equal Date in either order
SortedByDate(table, S) ==
    {o \in [1 .. Cardinality(S) -> S] :
        /\ \A i, j \in DOMAIN o : i # j => o[i] # o[j]
        /\ \A i, j \in DOMAIN o :
              i < j => DateKey(table[o[i]]["Date"]) <= DateKey(table[o[j]]["Date"])}

\* corridor.tail(14), as the (Date, Average Speed) points the trend chart plots
TrendWindow == 14
Tail14(table, o) ==
    LET n == Len(o)
        k == IF n > TrendWindow THEN TrendWindow ELSE n
    IN  [i \in 1 .. k |-> <<table[o[n - k + i]]["Date"],
                            table[o[n - k + i]]["Average Speed"]>>]

\* the payload built from one snapshot (traffic_app.py lines 120-128)
PayloadOf(snapshot, feature_names, area, road, weekday_index) ==
    LET explicit == {"Area Name", "Road/Intersection Name", "day_of_week",
                     "month", "is_weekend"}
        copied == {feature_names[i] : i \in DOMAIN feature_names} \cap DOMAIN snapshot
    IN  [col \in copied \cup explicit |->
            CASE col = "Area Name" -> area
              [] col = "Road/Intersection Name" -> road
              [] col = "day_of_week" -> weekday_index
              [] col = "month" -> snapshot["Date"].month
              [] col = "is_weekend" -> IF weekday_index >= 5 THEN 1 ELSE 0
              [] OTHER -> snapshot[col]]

\* build_feature_payload: the results it can return; None is <<>> and a
\* returned payload or snapshot x is <<x>>
build_feature_payload(table, feature_names, area, road, weekday_index) ==
    LET S == Matching(table, area, road)
    IN  IF S = {}
        THEN {[payload |-> <<>>, snapshot |-> <<>>, trend |-> <<>>]}
        ELSE {[payload |-> <<PayloadOf(table[o[Len(o)]], feature_names,
                                       area, road, weekday_index)>>,
               snapshot |-> <<table[o[Len(o)]]>>,
               trend |-> Tail14(table, o)] : o \in SortedByDate(table, S)}

\* a plausible slip: the caller tests a telemetry value, not the payload
Truthy_ByVolume(opt) == opt # <<>> /\ opt[1]["Traffic Volume"] # 0

\* Python truth value of an Optional[dict]: None and {} are false
Truthy(opt) == opt # <<>> /\ DOMAIN opt[1] # {}

----------------------------------------------------------------------------
(* traffic_model.py: predict_metrics.  The fitted pipeline is opaque: its   *)
(* output is drawn from RawIndexes, in units of 0.0001.                     *)

RawIndexes == {9500, 13000}

\* round(n / d) for n >= 0, d > 0 (ties to even, as Python's round)
RoundDiv(n, d) ==
    LET q == n \div d
        r == n % d
    IN  IF 2 * r < d THEN q
        ELSE IF 2 * r > d THEN q + 1
        ELSE IF q % 2 = 0 THEN q ELSE q + 1

\* pd.DataFrame([payload], columns=feature_names): the columns of the frame
\* that hold a value; a column the payload lacks is filled with NaN
FrameColumns(feature_names, payload) ==
    {feature_names[i] : i \in DOMAIN feature_names} \cap DOMAIN payload

\* a plausible slip: the end segments continued past the outer control points
InterpCongestion_Extrapolated(x) ==
    IF x <= 10000 THEN 300 - RoundDiv((10000 - x) * 250, 2000)
    ELSE IF x <= 12000 THEN 300 + RoundDiv((x - 10000) * 250, 2000)
    ELSE IF x <= 14000 THEN 550 + RoundDiv((x - 12000) * 250, 2000)
    ELSE 800 + RoundDiv((x - 14000) * 200, 2000)

\* np.interp(x, [1.0, 1.2, 1.4, 1.6], [30, 55, 80, 100]) rounded to 1
\* decimal, in tenths of a percent
InterpCongestion(x) ==
    IF x <= 10000 THEN 300
    ELSE IF x <= 12000 THEN 300 + RoundDiv((x - 10000) * 250, 2000)
    ELSE IF x <= 14000 THEN 550 + RoundDiv((x - 12000) * 250, 2000)
    ELSE IF x <= 16000 THEN 800 + RoundDiv((x - 14000) * 200, 2000)
    ELSE 1000

\* the dict predict_metrics returns for a raw index x
Metrics(x) ==
    [status |-> "ok",
     travel_time_index |-> RoundDiv(x, 10),
     implied_congestion_pct |-> InterpCongestion(x),
     eta_modifier_pct |-> IF x <= 10000 THEN 0 ELSE RoundDiv((x - 10000) * 55, 1000)]

SchemaError == [status |-> "error", travel_time_index |-> 0,
                implied_congestion_pct |-> 0, eta_modifier_pct |-> 0]

\* predict_metrics: the outcomes it can have.  It makes no schema check of
\* its own; on a frame with a NaN column pipeline.predict either raises or
\* returns a number, depending on the column and the scikit-learn release
\* (OneHotEncoder ignores unknown categories, StandardScaler passes NaN on,
\* the forest accepts NaN from 1.4 on).
predict_metrics(feature_names, payload) ==
    IF FrameColumns(feature_names, payload) = {feature_names[i] : i \in DOMAIN feature_names}
    THEN {Metrics(x) : x \in RawIndexes}
    ELSE {SchemaError} \cup {Metrics(x) : x \in RawIndexes}

----------------------------------------------------------------------------
(* route_utils.py.  Coordinates are in millionths of a degree, distances    *)
(* in metres.                                                              *)

Coord(lat, lon) == [lat |-> lat, lon |-> lon]

KnownAreas == {"Indiranagar", "Whitefield", "Koramangala", "M.G. Road",
               "Jayanagar", "Hebbal", "Yeshwanthpur"}

AREA_COORDS ==
    [a \in KnownAreas |->
        CASE a = "Indiranagar"  -> Coord(12978400, 77640800)
          [] a = "Whitefield"   -> Coord(12969800, 77750000)
          [] a = "Koramangala"  -> Coord(12935200, 77624500)
          [] a = "M.G. Road"    -> Coord(12975000, 77604000)
          [] a = "Jayanagar"    -> Coord(12925000, 77593800)
          [] a = "Hebbal"       -> Coord(13035800, 77597000)
          [] a = "Yeshwanthpur" -> Coord(13017000, 77556000)]

DEFAULT_LAT == 12971600
DEFAULT_LON == 77594600

\* _fallback_coords, from seed = abs(hash(name)) % 10_000
fallback_coords(seed) ==
    Coord(DEFAULT_LAT + ((seed % 2000) * 25 - 25000),
          DEFAULT_LON + (((seed \div 2000) % 2000) * 25 - 25000))

\* get_coords; hashes maps a name to abs(hash(name)) % 10_000 of this process
get_coords(area, hashes) ==
    IF area \in DOMAIN AREA_COORDS THEN AREA_COORDS[area]
    ELSE fallback_coords(hashes[area])

\* GEOD.inv on the WGS84 ellipsoid: metres between two tabled areas
GeodMetres ==
    [p \in (KnownAreas \X KnownAreas) |->
        LET d(a, b) == p = <<a, b>> \/ p = <<b, a>>
        IN  CASE p[1] = p[2] -> 0
              [] d("Indiranagar", "Whitefield")    -> 11886
              [] d("Indiranagar", "Koramangala")   -> 5096
              [] d("Indiranagar", "M.G. Road")     -> 4010
              [] d("Indiranagar", "Jayanagar")     -> 7804
              [] d("Indiranagar", "Hebbal")        -> 7931
              [] d("Indiranagar", "Yeshwanthpur")  -> 10142
              [] d("Whitefield", "Koramangala")    -> 14145
              [] d("Whitefield", "M.G. Road")      -> 15851
              [] d("Whitefield", "Jayanagar")      -> 17659
              [] d("Whitefield", "Hebbal")         -> 18133
              [] d("Whitefield", "Yeshwanthpur")   -> 21685
              [] d("Koramangala", "M.G. Road")     -> 4933
              [] d("Koramangala", "Jayanagar")     -> 3517
              [] d("Koramangala", "Hebbal")        -> 11522
              [] d("Koramangala", "Yeshwanthpur")  -> 11710
              [] d("M.G. Road", "Jayanagar")       -> 5641
              [] d("M.G. Road", "Hebbal")          -> 6769
              [] d("M.G. Road", "Yeshwanthpur")    -> 6979
              [] d("Jayanagar", "Hebbal")          -> 12263
              [] d("Jayanagar", "Yeshwanthpur")    -> 10973
              [] d("Hebbal", "Yeshwanthpur")       -> 4910]

\* compute_distance_km, in metres
compute_distance_km(start_area, end_area) ==
    LET dist_m == GeodMetres[<<start_area, end_area>>]
    IN  IF dist_m < 500 THEN 3500 ELSE dist_m

\* _geodesic_path: start, `steps` evenly spaced intermediates, end (the
\* intermediates of GEOD.npts interpolated linearly)
geodesic_path(start, end, steps) ==
    IF steps <= 0 THEN << <<start.lon, start.lat>>, <<end.lon, end.lat>> >>
    ELSE [i \in 1 .. steps + 2 |->
            IF i = 1 THEN <<start.lon, start.lat>>
            ELSE IF i = steps + 2 THEN <<end.lon, end.lat>>
            ELSE <<start.lon + ((end.lon - start.lon) * (i - 1)) \div (steps + 1),
                   start.lat + ((end.lat - start.lat) * (i - 1)) \div (steps + 1)>>]

\* what the one requests.get of _fetch_route_path can meet
Response(outcome, top, routes, first_route, geometry, coordinates) ==
    [outcome |-> outcome, top |-> top, routes |-> routes,
     first_route |-> first_route, geometry |-> geometry, coordinates |-> coordinates]

RoutedLine == << <<77604000, 12975000>>, <<77620000, 12977000>>, <<77640800, 12978400>> >>

RouteResponses ==
    { Response("timeout", "-", "-", "-", "-", <<>>),
      Response("connection_error", "-", "-", "-", "-", <<>>),
      Response("http_error", "-", "-", "-", "-", <<>>),
      Response("invalid_json", "-", "-", "-", "-", <<>>),
      Response("ok", "array", "-", "-", "-", <<>>),
      Response("ok", "object", "missing", "-", "-", <<>>),
      Response("ok", "object", "null", "-", "-", <<>>),
      Response("ok", "object", "empty", "-", "-", <<>>),
      Response("ok", "object", "list", "string", "-", <<>>),
      Response("ok", "object", "list", "object", "missing", <<>>),
      Response("ok", "object", "list", "object", "null", <<>>),
      Response("ok", "object", "list", "object", "object", <<>>),
      Response("ok", "object", "list", "object", "object", << <<>> >>),
      Response("ok", "object", "list", "object", "object", << RoutedLine >>),
      Response("ok", "object", "list", "object", "object",
               << << <<77604000, 12975000, 900>> >> >>) }

Returned(path) == [raised |-> FALSE, path |-> path]
Raised == [raised |-> TRUE, path |-> <<>>]

\* _fetch_route_path on a response: None is <<>>, a path p is <<p>>
fetch_route_path(resp) ==
    \* except requests.RequestException: timeout, connection error,
    \* raise_for_status on a non-2xx status, response.json() on a non-JSON body
    IF resp.outcome # "ok" THEN Returned(<<>>)
    \* payload.get("routes") on a body that is not a JSON object
    ELSE IF resp.top # "object" THEN Raised
    \* if not routes
    ELSE IF resp.routes \in {"missing", "null", "empty"} THEN Returned(<<>>)
    \* first_route.get on a route that is not an object
    ELSE IF resp.first_route # "object" THEN Raised
    \* first_route.get("geometry", {}).get on "geometry": null
    ELSE IF resp.geometry = "null" THEN Raised
    ELSE IF resp.geometry = "missing" THEN Returned(<<>>)
    \* if not coordinates
    ELSE IF resp.coordinates = <<>> \/ resp.coordinates[1] = <<>> THEN Returned(<<>>)
    \* for lon, lat in coordinates
    ELSE IF \E i \in DOMAIN resp.coordinates[1] : Len(resp.coordinates[1][i]) # 2
         THEN Raised
    ELSE Returned(resp.coordinates)

\* build_route_deck on the response its one request meets
build_route_deck(start_area, end_area, hashes, resp) ==
    LET start == get_coords(start_area, hashes)
        end0 == get_coords(end_area, hashes)
        end == IF start = end0
               THEN Coord(start.lat + 15000, start.lon + 15000) ELSE end0
        distance_km == compute_distance_km(start_area, end_area)
        fetched == fetch_route_path(resp)
        routed == ~fetched.raised /\ fetched.path # <<>>
        route_path == IF routed THEN fetched.path[1] ELSE geodesic_path(start, end, 30)
    IN  [raised |-> fetched.raised,
         start |-> start, end |-> end,
         distance_km |-> distance_km,
         deck |-> IF fetched.raised THEN <<>>
                  ELSE << [path |-> route_path,
                           source |-> IF routed THEN "osrm" ELSE "geodesic",
                           latitude |-> (start.lat + end.lat) \div 2,
                           longitude |-> (start.lon + end.lon) \div 2] >>]

----------------------------------------------------------------------------
(* traffic_app.py: the request script, one run from the sidebar values to   *)
(* st.stop or the rendered trip.  Minutes are in thousandths, money in      *)
(* paise; divisions truncate.                                              *)

VEHICLE_TYPES == <<"Mini", "LCV", "MHCV", "HCV">>

\* VEHICLE_TIME_FACTOR, in hundredths
VEHICLE_TIME_FACTOR ==
    [v \in {"Mini", "LCV", "MHCV", "HCV"} |->
        CASE v = "Mini" -> 100 [] v = "LCV" -> 108 [] v = "MHCV" -> 118 [] v = "HCV" -> 128]

\* VEHICLE_COST_PER_KM, in rupees
VEHICLE_COST_PER_KM ==
    [v \in {"Mini", "LCV", "MHCV", "HCV"} |->
        CASE v = "Mini" -> 28 [] v = "LCV" -> 42 [] v = "MHCV" -> 58 [] v = "HCV" -> 72]

\* VEHICLE_COST_PER_HOUR, in rupees
VEHICLE_COST_PER_HOUR ==
    [v \in {"Mini", "LCV", "MHCV", "HCV"} |->
        CASE v = "Mini" -> 320 [] v = "LCV" -> 450 [] v = "MHCV" -> 580 [] v = "HCV" -> 720]

\* PRIORITY_SURCHARGE, in tenths
PRIORITY_SURCHARGE ==
    [p \in {"Standard (4h window)", "Express (2h window)", "Night linehaul"} |->
        CASE p = "Standard (4h window)" -> 10
          [] p = "Express (2h window)" -> 12
          [] p = "Night linehaul" -> 9]

\* the corridors a run may ask for
QueryCorridors ==
    { <<"M.G. Road", "Trinity Circle">>, <<"M.G. Road", "CMH Road">>,
      <<"Indiranagar", "CMH Road">> }

\* the departure hours and travel days a run may ask for
RequestHours == {8, 9, 21, 22}
RequestDays == {0, 5, 6}

\* the incident override: None, or the slider value
IncidentChoices == {<<>>, <<6>>}

Max2(a, b) == IF a >= b THEN a ELSE b
Min2(a, b) == IF a <= b THEN a ELSE b

\* default of the volume sliders
VolumeDefault(volume) == Max2(1000, Min2(80000, RoundDiv(volume, 1000) * 1000))
\* default of the speed sliders
SpeedDefault(speed) == Max2(500, Min2(8000, RoundDiv(speed, 10) * 10))

\* a plausible slip: the two lists concatenated, not keyed by name
DictByName_Concat(rules) == rules

\* {rule.name: rule for rule in rules}, as the list of its values: a name
\* keeps the place of its first rule and the value of its last
RECURSIVE DictByName(_)
DictByName(rules) ==
    IF rules = <<>> THEN <<>>
    ELSE LET n == Len(rules)
             init == DictByName(SubSeq(rules, 1, n - 1))
             last == rules[n]
         IN  IF \E i \in DOMAIN init : init[i].name = last.name
             THEN [i \in DOMAIN init |->
                      IF init[i].name = last.name THEN last ELSE init[i]]
             ELSE Append(init, last)

\* minutes_to_label
minutes_to_label(millimin) ==
    LET rounded == RoundDiv(millimin, 1000)
    IN  [hours |-> rounded \div 60, mins |-> rounded % 60]

\* a plausible slip: the day wrap left out
arrival_time_label_NoWrap(depart_hour, millimin) ==
    LET total_minutes == depart_hour * 60 + RoundDiv(millimin, 1000)
        hours == total_minutes \div 60
        mins == total_minutes % 60
    IN  <<hours \div 10, hours % 10, mins \div 10, mins % 10>>

\* arrival_time_label: the digits of HH:MM
arrival_time_label(depart_hour, millimin) ==
    LET total_minutes == (depart_hour * 60 + RoundDiv(millimin, 1000)) % (24 * 60)
        hours == total_minutes \div 60
        mins == total_minutes % 60
    IN  <<hours \div 10, hours % 10, mins \div 10, mins % 10>>

\* a plausible slip: the buffer taken as the plain difference
time_figures_SignedBuffer(distance_km, start_speed, dest_speed, start_tti, dest_tti, vehicle_type) ==
    LET avg_speed2 == Max2(start_speed + dest_speed, 2000)
        route_tti2 == start_tti + dest_tti
        base_minutes == (distance_km * 12000) \div avg_speed2
        adjusted_minutes ==
            (((base_minutes * route_tti2) \div 2000) * VEHICLE_TIME_FACTOR[vehicle_type]) \div 100
    IN  [avg_speed2 |-> avg_speed2,
         base_minutes |-> base_minutes,
         adjusted_minutes |-> adjusted_minutes,
         buffer_minutes |-> adjusted_minutes - base_minutes]

\* lines 328-329 and 334-337: the time figures of a trip.  Speeds are the
\* two snapshots' Average Speed, indexes the two predictions' travel_time_index
\* (thousandths); avg_speed2 and route_tti2 are twice avg_speed and route_tti
time_figures(distance_km, start_speed, dest_speed, start_tti, dest_tti, vehicle_type) ==
    LET avg_speed2 == Max2(start_speed + dest_speed, 2000)
        route_tti2 == start_tti + dest_tti
        base_minutes == (distance_km * 12000) \div avg_speed2
        adjusted_minutes ==
            (((base_minutes * route_tti2) \div 2000) * VEHICLE_TIME_FACTOR[vehicle_type]) \div 100
    IN  [avg_speed2 |-> avg_speed2,
         base_minutes |-> base_minutes,
         adjusted_minutes |-> adjusted_minutes,
         buffer_minutes |-> Max2(0, adjusted_minutes - base_minutes)]

\* a plausible slip: the surcharge applied to the time cost alone
cost_figures_SurchargeOnTime(distance_km, adjusted_minutes, vehicle_type, service_priority) ==
    LET distance_cost == (distance_km * VEHICLE_COST_PER_KM[vehicle_type]) \div 10
        time_cost == (adjusted_minutes * VEHICLE_COST_PER_HOUR[vehicle_type]) \div 600
        priority_multiplier == PRIORITY_SURCHARGE[service_priority]
    IN  [distance_cost |-> distance_cost,
         time_cost |-> time_cost,
         priority_multiplier |-> priority_multiplier,
         estimated_cost |-> distance_cost + (time_cost * priority_multiplier) \div 10]

\* lines 339-342: the cost figures of a trip
cost_figures(distance_km, adjusted_minutes, vehicle_type, service_priority) ==
    LET distance_cost == (distance_km * VEHICLE_COST_PER_KM[vehicle_type]) \div 10
        time_cost == (adjusted_minutes * VEHICLE_COST_PER_HOUR[vehicle_type]) \div 600
        priority_multiplier == PRIORITY_SURCHARGE[service_priority]
    IN  [distance_cost |-> distance_cost,
         time_cost |-> time_cost,
         priority_multiplier |-> priority_multiplier,
         estimated_cost |-> ((distance_cost + time_cost) * priority_multiplier) \div 10]

NoPrediction == [status |-> "none", travel_time_index |-> 0,
                 implied_congestion_pct |-> 0, eta_modifier_pct |-> 0]

IdleInputs ==
    [start_area |-> "-", start_road |-> "-", dest_area |-> "-", dest_road |-> "-",
     vehicle_type |-> "-", service_priority |-> "-", planned_hour |-> 0,
     weekday_index |-> 0, incident_reports |-> <<>>]

\* the request variables of a run that has not started
RequestIdle ==
    /\ pc = "idle"
    /\ df = <<>>
    /\ inputs = IdleInputs
    /\ str_hash = <<>>
    /\ start_payload = <<>> /\ start_snapshot = <<>> /\ start_trend = <<>>
    /\ dest_payload = <<>> /\ dest_snapshot = <<>> /\ dest_trend = <<>>
    /\ start_prediction = NoPrediction /\ dest_prediction = NoPrediction
    /\ predict_calls = 0
    /\ rule_checks = 0
    /\ start_restrictions = <<>> /\ dest_restrictions = <<>>
    /\ active_restrictions = <<>>
    /\ restriction_details = <<>>
    /\ net_requests = 0
    /\ route_geom = <<>>
    /\ trip = <<>>

\* the rule-evaluation variables when no single evaluation is under way
RuleIdle ==
    /\ rule = CBD_HEAVY_VEHICLE_BAN
    /\ ctx = RouteContext("-", "-", "-", 0, 0)
    /\ applies_done = FALSE
    /\ applies_result = FALSE

NoCall == [fn |-> "-"]

\* the variables of the single-function runs when none is under way; the
\* registry is as rule_engine.py builds it at import
UnitIdle ==
    /\ call = NoCall /\ returned = <<>>
    /\ process = 0 /\ geocoded = <<>>
    /\ registry = ACTIVE_RULES /\ evals = <<>>

\* lines 160-221: the table is loaded, the model is fit, the sidebar is read
Init ==
    /\ RuleIdle
    /\ UnitIdle
    /\ pc = "sidebar"
    /\ df \in HistoricalTables
    /\ \E s \in QueryCorridors, d \in QueryCorridors,
          v \in {VEHICLE_TYPES[i] : i \in DOMAIN VEHICLE_TYPES},
          p \in DOMAIN PRIORITY_SURCHARGE, h \in RequestHours, w \in RequestDays,
          inc \in IncidentChoices :
          inputs = [start_area |-> s[1], start_road |-> s[2],
                    dest_area |-> d[1], dest_road |-> d[2],
                    vehicle_type |-> v, service_priority |-> p,
                    planned_hour |-> h, weekday_index |-> w,
                    incident_reports |-> inc]
    /\ str_hash = <<>>
    /\ start_payload = <<>> /\ start_snapshot = <<>> /\ start_trend = <<>>
    /\ dest_payload = <<>> /\ dest_snapshot = <<>> /\ dest_trend = <<>>
    /\ start_prediction = NoPrediction /\ dest_prediction = NoPrediction
    /\ predict_calls = 0
    /\ rule_checks = 0
    /\ start_restrictions = <<>> /\ dest_restrictions = <<>>
    /\ active_restrictions = <<>>
    /\ restriction_details = <<>>
    /\ net_requests = 0
    /\ route_geom = <<>>
    /\ trip = <<>>

\* lines 223-228
BuildFeatures ==
    /\ pc = "sidebar"
    /\ \E s \in build_feature_payload(df, FeatureNames, inputs.start_area,
                                      inputs.start_road, inputs.weekday_index),
          d \in build_feature_payload(df, FeatureNames, inputs.dest_area,
                                      inputs.dest_road, inputs.weekday_index) :
          /\ start_payload' = s.payload /\ start_snapshot' = s.snapshot
          /\ start_trend' = s.trend
          /\ dest_payload' = d.payload /\ dest_snapshot' = d.snapshot
          /\ dest_trend' = d.trend
    /\ pc' = "features"
    /\ UNCHANGED <<unitVars, ruleVars, df, inputs, str_hash, predictVars, checkVars, routeVars, trip>>

\* lines 230-232: st.error, st.stop
NotEnoughData ==
    /\ pc = "features"
    /\ ~Truthy(start_payload) \/ ~Truthy(dest_payload)
    /\ pc' = "insufficient"
    /\ UNCHANGED <<unitVars, ruleVars, df, inputs, str_hash, featureVars, predictVars, checkVars,
                   routeVars, trip>>

\* lines 234-287: the incident override and the four assumption sliders,
\* left at their defaults (the expander opens collapsed)
ApplyOverrides ==
    /\ pc = "features"
    /\ Truthy(start_payload) /\ Truthy(dest_payload)
    /\ \E sv \in {VolumeDefault(start_snapshot[1]["Traffic Volume"])},
          ss \in {SpeedDefault(start_snapshot[1]["Average Speed"])},
          dv \in {VolumeDefault(dest_snapshot[1]["Traffic Volume"])},
          ds \in {SpeedDefault(dest_snapshot[1]["Average Speed"])} :
          LET withIncidents(p) ==
                  IF inputs.incident_reports # <<>>
                  THEN [c \in DOMAIN p \cup {"Incident Reports"} |->
                           IF c = "Incident Reports" THEN inputs.incident_reports[1]
                           ELSE p[c]]
                  ELSE p
              withTraffic(p, volume, speed) ==
                  [c \in DOMAIN p \cup {"Traffic Volume", "Average Speed"} |->
                      IF c = "Traffic Volume" THEN volume
                      ELSE IF c = "Average Speed" THEN speed ELSE p[c]]
          IN  /\ start_payload' = <<withTraffic(withIncidents(start_payload[1]), sv, ss)>>
              /\ dest_payload' = <<withTraffic(withIncidents(dest_payload[1]), dv, ds)>>
    /\ pc' = "overridden"
    /\ UNCHANGED <<unitVars, ruleVars, df, inputs, str_hash, start_snapshot, start_trend,
                   dest_snapshot, dest_trend, predictVars, checkVars, routeVars, trip>>

\* line 289
PredictStart ==
    /\ pc = "overridden"
    /\ \E r \in predict_metrics(FeatureNames, start_payload[1]) :
          /\ start_prediction' = r
          /\ pc' = IF r.status = "ok" THEN "predicted_start" ELSE "raised"
    /\ predict_calls' = predict_calls + 1
    /\ UNCHANGED <<unitVars, ruleVars, df, inputs, str_hash, featureVars, dest_prediction,
                   checkVars, routeVars, trip>>

\* line 290
PredictDest ==
    /\ pc = "predicted_start"
    /\ \E r \in predict_metrics(FeatureNames, dest_payload[1]) :
          /\ dest_prediction' = r
          /\ pc' = IF r.status = "ok" THEN "predicted" ELSE "raised"
    /\ predict_calls' = predict_calls + 1
    /\ UNCHANGED <<unitVars, ruleVars, df, inputs, str_hash, featureVars, start_prediction,
                   checkVars, routeVars, trip>>

\* a plausible slip: the destination's rules left out of the blocking set
CheckRoutes_StartOnly ==
    /\ pc = "predicted"
    /\ LET start_ctx == RouteContext(inputs.start_area, inputs.start_road,
                                     inputs.vehicle_type, inputs.planned_hour,
                                     inputs.weekday_index)
           dest_ctx == RouteContext(inputs.dest_area, inputs.dest_road,
                                    inputs.vehicle_type, inputs.planned_hour,
                                    inputs.weekday_index)
       IN  /\ start_restrictions' = check_route(start_ctx)
           /\ dest_restrictions' = check_route(dest_ctx)
           /\ active_restrictions' = DictByName(check_route(start_ctx))
    /\ rule_checks' = rule_checks + 2
    /\ pc' = "checked"
    /\ UNCHANGED <<unitVars, ruleVars, df, inputs, str_hash, featureVars, predictVars,
                   restriction_details, routeVars, trip>>

\* lines 292-310
CheckRoutes ==
    /\ pc = "predicted"
    /\ LET start_ctx == RouteContext(inputs.start_area, inputs.start_road,
                                     inputs.vehicle_type, inputs.planned_hour,
                                     inputs.weekday_index)
           dest_ctx == RouteContext(inputs.dest_area, inputs.dest_road,
                                    inputs.vehicle_type, inputs.planned_hour,
                                    inputs.weekday_index)
       IN  /\ start_restrictions' = check_route(start_ctx)
           /\ dest_restrictions' = check_route(dest_ctx)
           /\ active_restrictions' =
                  DictByName(check_route(start_ctx) \o check_route(dest_ctx))
    /\ rule_checks' = rule_checks + 2
    /\ pc' = "checked"
    /\ UNCHANGED <<unitVars, ruleVars, df, inputs, str_hash, featureVars, predictVars,
                   restriction_details, routeVars, trip>>

\* lines 315-325: the line written for each rule of active_restrictions
restriction_lines(active) ==
    [i \in DOMAIN active |->
        [name |-> active[i].name,
         start_hour |-> active[i].start_hour,
         end_hour |-> active[i].end_hour,
         operating_days |-> active[i].days,
         restricted_types |-> active[i].restricted_vehicle_types,
         guidance |-> active[i].recommendation]]

\* lines 312-326: st.error, one line of detail per blocking rule, st.stop
TripBlocked ==
    /\ pc = "checked"
    /\ active_restrictions # <<>>
    /\ restriction_details' = restriction_lines(active_restrictions)
    /\ pc' = "blocked"
    /\ UNCHANGED <<unitVars, ruleVars, df, inputs, str_hash, featureVars, predictVars,
                   rule_checks, start_restrictions, dest_restrictions,
                   active_restrictions, routeVars, trip>>

\* line 331: build_route_deck, whose one request meets any of RouteResponses;
\* an exception it lets through ends the run
BuildRoute ==
    /\ pc = "checked"
    /\ active_restrictions = <<>>
    /\ \E resp \in RouteResponses :
          LET g == build_route_deck(inputs.start_area, inputs.dest_area, str_hash, resp)
          IN  /\ route_geom' = IF g.raised THEN <<>> ELSE <<g>>
              /\ pc' = IF g.raised THEN "raised" ELSE "routed"
    /\ net_requests' = net_requests + 1
    /\ UNCHANGED <<unitVars, ruleVars, df, inputs, str_hash, featureVars, predictVars, checkVars, trip>>

\* lines 328-329 and 332-352: the composed trip
ComposeTrip ==
    /\ pc = "routed"
    /\ LET v == inputs.vehicle_type
           \* line 332: distance_km or 6.5
           distance_km == IF route_geom[1].distance_km = 0 THEN 6500
                          ELSE route_geom[1].distance_km
           time == time_figures(distance_km,
                                start_snapshot[1]["Average Speed"],
                                dest_snapshot[1]["Average Speed"],
                                start_prediction.travel_time_index,
                                dest_prediction.travel_time_index, v)
           cost == cost_figures(distance_km, time.adjusted_minutes, v,
                                inputs.service_priority)
       IN  trip' = << [distance_km |-> distance_km,
                       avg_speed2 |-> time.avg_speed2,
                       base_minutes |-> time.base_minutes,
                       adjusted_minutes |-> time.adjusted_minutes,
                       buffer_minutes |-> time.buffer_minutes,
                       distance_cost |-> cost.distance_cost,
                       time_cost |-> cost.time_cost,
                       priority_multiplier |-> cost.priority_multiplier,
                       estimated_cost |-> cost.estimated_cost,
                       arrival_label |-> arrival_time_label(inputs.planned_hour,
                                                            time.adjusted_minutes),
                       duration_label |-> minutes_to_label(time.adjusted_minutes),
                       \* "No extra buffer" is <<>>
                       buffer_label |-> IF time.buffer_minutes = 0 THEN <<>>
                                        ELSE <<minutes_to_label(time.buffer_minutes)>>] >>
    /\ pc' = "done"
    /\ UNCHANGED <<unitVars, ruleVars, df, inputs, str_hash, featureVars, predictVars, checkVars,
                   routeVars>>

Next ==
    \/ BuildFeatures
    \/ NotEnoughData
    \/ ApplyOverrides
    \/ PredictStart
    \/ PredictDest
    \/ CheckRoutes
    \/ TripBlocked
    \/ BuildRoute
    \/ ComposeTrip

Spec == Init /\ [][Next]_vars

----------------------------------------------------------------------------
(* One evaluation of Rule.applies on a drawn rule and context *)

DrawnRules ==
    {Rule("drawn", a, r, v, s, e, d, "drawn") :
        a \in ListsOver(RuleAreas, MaxListLen),
        r \in ListsOver(RuleRoads, MaxListLen),
        v \in ListsOver(RuleVehicles, MaxListLen),
        s \in StartHours, e \in EndHours,
        d \in ListsOver(RuleDays, MaxListLen)}

DrawnContexts ==
    {RouteContext(a, r, v, h, d) :
        a \in RuleAreas, r \in RuleRoads, v \in RuleVehicles,
        h \in Hours, d \in RuleDays}

InitRule ==
    /\ RequestIdle
    /\ UnitIdle
    /\ rule \in DrawnRules
    /\ ctx \in DrawnContexts
    /\ applies_done = FALSE
    /\ applies_result = FALSE

EvalApplies ==
    /\ ~applies_done
    /\ applies_result' = applies(rule, ctx)
    /\ applies_done' = TRUE
    /\ UNCHANGED <<unitVars, rule, ctx, pc, df, inputs, str_hash, featureVars, predictVars,
                   checkVars, routeVars, trip>>

NextRule == EvalApplies

SpecRule == InitRule /\ [][NextRule]_vars

----------------------------------------------------------------------------
(* One call of predict_metrics on a drawn payload *)

\* most schema columns a drawn payload lacks
MaxMissing == 1

\* the payloads of the sample rows, each without up to MaxMissing columns
DrawnPayloads ==
    {[c \in DOMAIN p \ missing |-> p[c]] :
        p \in {PayloadOf(row, FeatureNames, row["Area Name"],
                         row["Road/Intersection Name"], w) :
                  row \in SampleRows, w \in RequestDays},
        missing \in {m \in SUBSET FeatureSet : Cardinality(m) <= MaxMissing}}

InitPredict ==
    /\ RuleIdle
    /\ UnitIdle
    /\ pc = "overridden"
    /\ df = <<>>
    /\ inputs = IdleInputs
    /\ str_hash = <<>>
    /\ \E p \in DrawnPayloads : start_payload = <<p>>
    /\ start_snapshot = <<>> /\ start_trend = <<>>
    /\ dest_payload = <<>> /\ dest_snapshot = <<>> /\ dest_trend = <<>>
    /\ start_prediction = NoPrediction /\ dest_prediction = NoPrediction
    /\ predict_calls = 0
    /\ rule_checks = 0
    /\ start_restrictions = <<>> /\ dest_restrictions = <<>>
    /\ active_restrictions = <<>>
    /\ restriction_details = <<>>
    /\ net_requests = 0
    /\ route_geom = <<>>
    /\ trip = <<>>

NextPredict == PredictStart

SpecPredict == InitPredict /\ [][NextPredict]_vars

----------------------------------------------------------------------------
(* build_feature_payload on tables whose corridor rows repeat a Date *)

\* rows of one corridor, two of them with the latest Date, and one row of
\* another corridor
TiedRows ==
    { LoadedRow("M.G. Road", "Trinity Circle", Date(1, 5, 2), 50590, 4193, 35, "Clear"),
      LoadedRow("M.G. Road", "Trinity Circle", Date(1, 5, 2), 41000, 3010, 35, "Rain"),
      LoadedRow("M.G. Road", "Trinity Circle", Date(1, 4, 1), 47000, 3900, 35, "Clear"),
      LoadedRow("Indiranagar", "CMH Road", Date(1, 5, 2), 27500, 3245, 60, "Fog") }

TiedTables ==
    {t \in UNION {[1 .. n -> TiedRows] : n \in 0 .. MaxRows} :
        \A i, j \in DOMAIN t : i # j => t[i] # t[j]}

TiedCorridors == { <<"M.G. Road", "Trinity Circle">>, <<"Indiranagar", "CMH Road">> }

InitSnapshot ==
    /\ RuleIdle
    /\ UnitIdle
    /\ pc = "sidebar"
    /\ df \in TiedTables
    /\ \E s \in TiedCorridors, d \in TiedCorridors, w \in RequestDays :
          inputs = [start_area |-> s[1], start_road |-> s[2],
                    dest_area |-> d[1], dest_road |-> d[2],
                    vehicle_type |-> "Mini", service_priority |-> "Standard (4h window)",
                    planned_hour |-> 9, weekday_index |-> w,
                    incident_reports |-> <<>>]
    /\ str_hash = <<>>
    /\ start_payload = <<>> /\ start_snapshot = <<>> /\ start_trend = <<>>
    /\ dest_payload = <<>> /\ dest_snapshot = <<>> /\ dest_trend = <<>>
    /\ start_prediction = NoPrediction /\ dest_prediction = NoPrediction
    /\ predict_calls = 0
    /\ rule_checks = 0
    /\ start_restrictions = <<>> /\ dest_restrictions = <<>>
    /\ active_restrictions = <<>>
    /\ restriction_details = <<>>
    /\ net_requests = 0
    /\ route_geom = <<>>
    /\ trip = <<>>

NextSnapshot == BuildFeatures

SpecSnapshot == InitSnapshot /\ [][NextSnapshot]_vars

----------------------------------------------------------------------------
(* One call of a pure function on drawn arguments *)

requestVars == <<pc, df, inputs, str_hash, featureVars, predictVars, checkVars, routeVars, trip>>

\* heaviest drawn payload, in hundredths of a ton
MaxPayload == 1000

\* Optional[str] arguments: None, the empty string, the vehicle classes
DrawnChoices == {<<>>, <<"">>} \cup {<<VEHICLE_TYPES[i]>> : i \in DOMAIN VEHICLE_TYPES}

\* drawn trips: distances in metres, snapshot speeds, predicted indexes, and
\* for the cost lines alone the adjusted minutes
DrawnDistances == {500, 3500, 4010, 6500, 10000, 10001, 21685}
DrawnSpeeds == {0, 3245, 4193}
DrawnIndexes == {RoundDiv(x, 10) : x \in RawIndexes}
DrawnMinutes == {0, 500, 30000, 45678, 216000}
VehicleClasses == {VEHICLE_TYPES[i] : i \in DOMAIN VEHICLE_TYPES}

\* largest drawn raw index of the pipeline, in units of 0.0001
MaxIndex == 20000

\* drawn durations: a whole number of minutes plus up to MaxQuarterMinutes
\* quarters of a minute, in thousandths of a minute
DurationBases == {0, 59, 1380, 1438, 1440, 2879}
MaxQuarterMinutes == 8
DrawnDurations ==
    {b * 1000 + k * 250 : b \in DurationBases, k \in 0 .. MaxQuarterMinutes}

InitCalc ==
    /\ RuleIdle
    /\ RequestIdle
    /\ process = 0 /\ geocoded = <<>>
    /\ registry = ACTIVE_RULES /\ evals = <<>>
    /\ returned = <<>>
    /\ \/ \E t \in 0 .. MaxPayload :
             call = [fn |-> "suggest_vehicle_type", payload_tons |-> t]
       \/ \E c \in DrawnChoices, t \in 0 .. MaxPayload :
             call = [fn |-> "resolve_vehicle_type", user_choice |-> c, payload_tons |-> t]
       \/ \E d \in DrawnDistances, ss \in DrawnSpeeds, ds \in DrawnSpeeds,
             st \in DrawnIndexes, dt \in DrawnIndexes,
             v \in VehicleClasses, p \in DOMAIN PRIORITY_SURCHARGE :
             call = [fn |-> "trip", distance_km |-> d, start_speed |-> ss,
                     dest_speed |-> ds, start_tti |-> st, dest_tti |-> dt,
                     vehicle_type |-> v, service_priority |-> p]
       \/ \E d \in DrawnDistances, m \in DrawnMinutes,
             v \in VehicleClasses, p \in DOMAIN PRIORITY_SURCHARGE :
             call = [fn |-> "cost", distance_km |-> d, adjusted_minutes |-> m,
                     vehicle_type |-> v, service_priority |-> p]
       \/ \E x \in 0 .. MaxIndex :
             call = [fn |-> "metrics", travel_time_index |-> x]
       \/ \E h \in Hours, m \in DrawnDurations :
             call = [fn |-> "arrival_time_label", depart_hour |-> h,
                     duration_minutes |-> m]

\* rule_engine.py lines 105-112
SuggestVehicle ==
    /\ call.fn = "suggest_vehicle_type" /\ returned = <<>>
    /\ returned' = <<suggest_vehicle_type(call.payload_tons)>>
    /\ UNCHANGED <<ruleVars, requestVars, call, geocodeVars, sharedVars>>

\* rule_engine.py lines 115-116
ResolveVehicle ==
    /\ call.fn = "resolve_vehicle_type" /\ returned = <<>>
    /\ returned' = <<resolve_vehicle_type(call.user_choice, call.payload_tons)>>
    /\ UNCHANGED <<ruleVars, requestVars, call, geocodeVars, sharedVars>>

\* traffic_app.py lines 328-329 and 334-342 on drawn snapshots and predictions
ComposeFigures ==
    /\ call.fn = "trip" /\ returned = <<>>
    /\ LET time == time_figures(call.distance_km, call.start_speed, call.dest_speed,
                                call.start_tti, call.dest_tti, call.vehicle_type)
       IN  returned' = << [time |-> time,
                           cost |-> cost_figures(call.distance_km, time.adjusted_minutes,
                                                 call.vehicle_type,
                                                 call.service_priority)] >>
    /\ UNCHANGED <<ruleVars, requestVars, call, geocodeVars, sharedVars>>

\* traffic_app.py lines 339-342 on drawn adjusted minutes
ComposeCost ==
    /\ call.fn = "cost" /\ returned = <<>>
    /\ returned' = <<cost_figures(call.distance_km, call.adjusted_minutes,
                                  call.vehicle_type, call.service_priority)>>
    /\ UNCHANGED <<ruleVars, requestVars, call, geocodeVars, sharedVars>>

\* traffic_model.py lines 89-99 on a drawn output of the pipeline
DeriveMetrics ==
    /\ call.fn = "metrics" /\ returned = <<>>
    /\ returned' = <<Metrics(call.travel_time_index)>>
    /\ UNCHANGED <<ruleVars, requestVars, call, geocodeVars, sharedVars>>

\* traffic_app.py lines 141-146
ArrivalLabel ==
    /\ call.fn = "arrival_time_label" /\ returned = <<>>
    /\ returned' = <<arrival_time_label(call.depart_hour, call.duration_minutes)>>
    /\ UNCHANGED <<ruleVars, requestVars, call, geocodeVars, sharedVars>>

NextCalc ==
    \/ SuggestVehicle
    \/ ResolveVehicle
    \/ ComposeFigures
    \/ ComposeCost
    \/ DeriveMetrics
    \/ ArrivalLabel

SpecCalc == InitCalc /\ [][NextCalc]_vars

----------------------------------------------------------------------------
(* get_coords over successive runs of the interpreter.  hash() of a str is  *)
(* salted afresh for each interpreter unless PYTHONHASHSEED is set, which   *)
(* the repository nowhere does.                                            *)

\* interpreter runs and get_coords calls looked at
MaxProcesses == 2
MaxQueries == 2

\* area names without an entry in AREA_COORDS, and the names queried
UnknownNames == {"Electronic City", "Peenya"}
GeocodeNames == UnknownNames \cup {"Hebbal"}

\* values abs(hash(name)) % 10_000 may take
Seeds == {0, 1999, 2000, 9999}

InitGeocode ==
    /\ RuleIdle
    /\ call = NoCall /\ returned = <<>>
    /\ registry = ACTIVE_RULES /\ evals = <<>>
    /\ process = 1
    /\ str_hash \in [UnknownNames -> Seeds]
    /\ geocoded = <<>>
    /\ pc = "idle"
    /\ df = <<>>
    /\ inputs = IdleInputs
    /\ start_payload = <<>> /\ start_snapshot = <<>> /\ start_trend = <<>>
    /\ dest_payload = <<>> /\ dest_snapshot = <<>> /\ dest_trend = <<>>
    /\ start_prediction = NoPrediction /\ dest_prediction = NoPrediction
    /\ predict_calls = 0
    /\ rule_checks = 0
    /\ start_restrictions = <<>> /\ dest_restrictions = <<>>
    /\ active_restrictions = <<>>
    /\ restriction_details = <<>>
    /\ net_requests = 0
    /\ route_geom = <<>>
    /\ trip = <<>>

\* the application is started again: a new interpreter with a new hash salt
StartInterpreter ==
    /\ process < MaxProcesses
    /\ process' = process + 1
    /\ str_hash' \in [UnknownNames -> Seeds]
    /\ UNCHANGED <<ruleVars, pc, df, inputs, featureVars, predictVars, checkVars,
                   routeVars, trip, calcVars, geocoded, sharedVars>>

\* route_utils.py lines 47-51, for any of the names
GetCoords ==
    /\ Len(geocoded) < MaxQueries
    /\ \E name \in GeocodeNames :
          geocoded' = Append(geocoded, [process |-> process, area |-> name,
                                        coords |-> get_coords(name, str_hash)])
    /\ UNCHANGED <<ruleVars, requestVars, calcVars, process, sharedVars>>

NextGeocode ==
    \/ StartInterpreter
    \/ GetCoords

SpecGeocode == InitGeocode /\ [][NextGeocode]_vars

----------------------------------------------------------------------------
(* Sessions of the application running side by side in one interpreter.    *)
(* Each runs the script in a thread of its own; rule_engine is imported    *)
(* once, so ACTIVE_RULES and its Rule objects are shared by all of them.   *)
(* A session is followed from the payload slider to the end of the rule    *)
(* check of its start corridor.                                            *)

MaxSessions == 2
Sessions == 1 .. MaxSessions

\* the sidebar values of a session; the vehicle class is the suggested one
SessionInputs ==
    { [area |-> "M.G. Road", road |-> "Trinity Circle", payload_tons |-> 500,
       planned_hour |-> 9, day_of_week |-> 0],
      [area |-> "Indiranagar", road |-> "CMH Road", payload_tons |-> 350,
       planned_hour |-> 9, day_of_week |-> 0],
      [area |-> "Hebbal", road |-> "Hebbal Flyover", payload_tons |-> 900,
       planned_hour |-> 23, day_of_week |-> 6],
      [area |-> "Whitefield", road |-> "ITPL Main Road", payload_tons |-> 50,
       planned_hour |-> 9, day_of_week |-> 0] }

\* a session at the payload slider
NewSession(in) ==
    [pc |-> "sidebar", in |-> in, vehicle_type |-> "-",
     i |-> 1, out |-> <<>>, details |-> <<>>]

\* the RouteContext of a session (lines 294-300)
SessionCtx(e) ==
    RouteContext(evals[e].in.area, evals[e].in.road, evals[e].vehicle_type,
                 evals[e].in.planned_hour, evals[e].in.day_of_week)

InitShared ==
    /\ RuleIdle
    /\ RequestIdle
    /\ call = NoCall /\ returned = <<>>
    /\ process = 0 /\ geocoded = <<>>
    /\ registry = ACTIVE_RULES
    /\ evals \in [Sessions -> {NewSession(in) : in \in SessionInputs}]

\* traffic_app.py lines 197-204: the suggested class, left selected
Suggest(e) ==
    /\ evals[e].pc = "sidebar"
    /\ evals' = [evals EXCEPT
                    ![e].vehicle_type = resolve_vehicle_type(<<>>, evals[e].in.payload_tons),
                    ![e].pc = "checking"]
    /\ UNCHANGED <<ruleVars, requestVars, calcVars, geocodeVars, registry>>

\* a plausible slip: a rule that applies is taken off the shared list
ApplyRule_Consuming(e) ==
    /\ evals[e].pc = "checking"
    /\ evals[e].i <= Len(registry)
    /\ LET r == registry[evals[e].i]
       IN  IF applies(r, SessionCtx(e))
           THEN /\ evals' = [evals EXCEPT ![e].out = Append(@, r)]
                /\ registry' = [k \in 1 .. Len(registry) - 1 |->
                                    IF k < evals[e].i THEN registry[k] ELSE registry[k + 1]]
           ELSE /\ evals' = [evals EXCEPT ![e].i = @ + 1]
                /\ UNCHANGED registry
    /\ UNCHANGED <<ruleVars, requestVars, calcVars, geocodeVars>>

\* rule_engine.py line 102: one turn of the comprehension, rule.applies(ctx)
\* on the next rule of ACTIVE_RULES
ApplyRule(e) ==
    /\ evals[e].pc = "checking"
    /\ evals[e].i <= Len(registry)
    /\ LET r == registry[evals[e].i]
       IN  evals' = [evals EXCEPT
                        ![e].out = IF applies(r, SessionCtx(e)) THEN Append(@, r) ELSE @,
                        ![e].i = @ + 1]
    /\ UNCHANGED <<ruleVars, requestVars, calcVars, geocodeVars, registry>>

\* rule_engine.py line 102, traffic_app.py lines 308-312: the list is
\* exhausted and check_route returns
ReturnRules(e) ==
    /\ evals[e].pc = "checking"
    /\ evals[e].i > Len(registry)
    /\ evals' = [evals EXCEPT
                    ![e].pc = IF evals[e].out # <<>> THEN "render" ELSE "passed"]
    /\ UNCHANGED <<ruleVars, requestVars, calcVars, geocodeVars, registry>>

\* traffic_app.py lines 313-326: the blocked trip is rendered
RenderBlocked(e) ==
    /\ evals[e].pc = "render"
    /\ evals' = [evals EXCEPT
                    ![e].details = restriction_lines(DictByName(evals[e].out)),
                    ![e].pc = "stopped"]
    /\ UNCHANGED <<ruleVars, requestVars, calcVars, geocodeVars, registry>>

NextShared ==
    \/ \E e \in Sessions : Suggest(e)
    \/ \E e \in Sessions : ApplyRule(e)
    \/ \E e \in Sessions : ReturnRules(e)
    \/ \E e \in Sessions : RenderBlocked(e)

SpecShared == InitShared /\ [][NextShared]_vars

----------------------------------------------------------------------------
(* Properties *)

Range(list) == {list[i] : i \in DOMAIN list}

\* the contexts of the two endpoints of the run
StartCtx == RouteContext(inputs.start_area, inputs.start_road, inputs.vehicle_type,
                         inputs.planned_hour, inputs.weekday_index)
DestCtx == RouteContext(inputs.dest_area, inputs.dest_road, inputs.vehicle_type,
                        inputs.planned_hour, inputs.weekday_index)

\* C1: the rule check comes before any prediction or cost work, and a
\* request the rule check blocks has made no call of predict_metrics and
\* computed no cost.
C1_RuleCheckBeforePrediction ==
    /\ predict_calls > 0 => rule_checks > 0
    /\ active_restrictions # <<>> => predict_calls = 0 /\ trip = <<>>

\* C2: a request for which check_route returns a rule for either endpoint
\* goes from the rule check to the blocked state and stays there; it fetches
\* no route geometry and produces no distance, duration, buffer, arrival or
\* cost.
C2_FailClosedBlock ==
    /\ [](start_restrictions # <<>> \/ dest_restrictions # <<>>
            => /\ pc \in {"checked", "blocked"}
               /\ net_requests = 0 /\ route_geom = <<>> /\ trip = <<>>)
    /\ [][/\ (pc = "checked" /\ (start_restrictions # <<>> \/ dest_restrictions # <<>>)
                => pc' = "blocked")
          /\ pc # "blocked"]_vars

C2_Witness ==
    pc = "blocked" /\ start_restrictions = <<>> /\ dest_restrictions # <<>>

\* C3: Rule.applies returns true exactly when the area, road, vehicle, hour
\* and day predicates all hold.
C3_AppliesIffAllFive ==
    applies_done =>
        (applies_result <=>
            /\ rule.restricted_areas = <<>> \/ ctx.area \in Range(rule.restricted_areas)
            /\ rule.restricted_roads = <<>> \/ ctx.road \in Range(rule.restricted_roads)
            /\ rule.restricted_vehicle_types = <<>>
                  \/ ctx.vehicle_type \in Range(rule.restricted_vehicle_types)
            /\ ctx.planned_hour \in rule.start_hour .. (rule.end_hour - 1)
            /\ rule.days = <<>> \/ ctx.day_of_week \in Range(rule.days))

C3_Witness ==
    /\ applies_done /\ applies_result
    /\ rule.restricted_areas # <<>> /\ rule.restricted_roads # <<>>
    /\ rule.restricted_vehicle_types # <<>> /\ rule.days # <<>>

\* C4: the blocking rules of a request are the active rules that apply to the
\* start context or to the destination context, each exactly once.
C4_BlockingRulesAreTheUnion ==
    rule_checks > 0 =>
        /\ \A r \in Range(ACTIVE_RULES) :
              (applies(r, StartCtx) \/ applies(r, DestCtx))
                  <=> r \in Range(active_restrictions)
        /\ \A i, j \in DOMAIN active_restrictions :
              i # j => active_restrictions[i].name # active_restrictions[j].name

C4_Witness ==
    /\ Len(start_restrictions) = 2 /\ Len(dest_restrictions) = 1
    /\ dest_restrictions[1] \in Range(start_restrictions)
    /\ Len(active_restrictions) = 2

\* the area, road, vehicle and day predicates of the rule under evaluation
OtherFourHold ==
    /\ rule.restricted_areas = <<>> \/ ctx.area \in Range(rule.restricted_areas)
    /\ rule.restricted_roads = <<>> \/ ctx.road \in Range(rule.restricted_roads)
    /\ rule.restricted_vehicle_types = <<>>
          \/ ctx.vehicle_type \in Range(rule.restricted_vehicle_types)
    /\ rule.days = <<>> \/ ctx.day_of_week \in Range(rule.days)

\* C5: the hour window is half-open and does not wrap: with the other four
\* predicates satisfied a rule with start_hour < end_hour applies at
\* planned_hour = start_hour, no rule applies at planned_hour = end_hour, and
\* a rule with start_hour >= end_hour applies at no hour of 0..23.
C5_HalfOpenNonWrappingWindow ==
    applies_done =>
        /\ (OtherFourHold /\ rule.start_hour < rule.end_hour
                /\ ctx.planned_hour = rule.start_hour) => applies_result
        /\ ctx.planned_hour = rule.end_hour => ~applies_result
        /\ rule.start_hour >= rule.end_hour =>
              /\ ~applies_result
              /\ \A h \in Hours : ~applies(rule, [ctx EXCEPT !.planned_hour = h])

C5_Witness ==
    /\ applies_done /\ OtherFourHold
    /\ rule.start_hour = 22 /\ rule.end_hour = 6 /\ ctx.planned_hour = 23
    /\ ~applies_result

\* C6: a rule with an empty restriction list on a dimension gives the same
\* result for contexts that differ only on that dimension, and the empty list
\* does not restrict: the rule applies whenever its other predicates hold.  A
\* rule with a non-empty day list does not apply on a day outside it.
C6_EmptyListIsNoRestriction ==
    applies_done =>
        LET hour_match == rule.start_hour <= ctx.planned_hour
                            /\ ctx.planned_hour < rule.end_hour
            area_match == ctx.area \in Range(rule.restricted_areas)
            road_match == ctx.road \in Range(rule.restricted_roads)
            vehicle_match == ctx.vehicle_type \in Range(rule.restricted_vehicle_types)
            day_match == ctx.day_of_week \in Range(rule.days)
        IN  /\ rule.restricted_areas = <<>> =>
                  \A a \in RuleAreas \cup {"Whitefield"} :
                      applies(rule, [ctx EXCEPT !.area = a]) = applies_result
            /\ rule.restricted_roads = <<>> =>
                  \A r \in RuleRoads \cup {"Tumkur Road"} :
                      applies(rule, [ctx EXCEPT !.road = r]) = applies_result
            /\ rule.restricted_vehicle_types = <<>> =>
                  \A v \in RuleVehicles \cup {"HCV"} :
                      applies(rule, [ctx EXCEPT !.vehicle_type = v]) = applies_result
            /\ rule.days = <<>> =>
                  \A d \in Weekdays :
                      applies(rule, [ctx EXCEPT !.day_of_week = d]) = applies_result
            /\ (rule.restricted_areas = <<>> /\ rule.restricted_roads = <<>>
                  /\ rule.restricted_vehicle_types = <<>> /\ rule.days = <<>>
                  /\ hour_match) => applies_result
            /\ (rule.days = <<>> /\ (rule.restricted_areas = <<>> \/ area_match)
                  /\ (rule.restricted_roads = <<>> \/ road_match)
                  /\ (rule.restricted_vehicle_types = <<>> \/ vehicle_match)
                  /\ hour_match) => applies_result
            /\ (rule.days # <<>> /\ ~day_match) => ~applies_result

C6_Witness ==
    /\ applies_done /\ applies_result
    /\ rule.days = <<>> /\ rule.restricted_areas = <<>>
    /\ rule.restricted_roads # <<>>

\* C7: with the shipped rules a context in M.G. Road with an MHCV on a Monday
\* gets the CBD heavy vehicle curfew at 09:00, on any road, and the request is
\* blocked; at 22:00 it gets no rule and the request is not blocked.
C7_CurfewScenario ==
    LET scenario(h) == /\ inputs.start_area = "M.G. Road"
                       /\ inputs.vehicle_type = "MHCV"
                       /\ inputs.weekday_index = 0
                       /\ inputs.planned_hour = h
        names(rules) == [i \in DOMAIN rules |-> rules[i].name]
    IN  /\ \A road \in {"Trinity Circle", "CMH Road", "Hebbal Flyover", "ITPL Main Road"} :
              /\ names(check_route(RouteContext("M.G. Road", road, "MHCV", 9, 0)))
                    = <<"CBD heavy vehicle curfew">>
              /\ check_route(RouteContext("M.G. Road", road, "MHCV", 22, 0)) = <<>>
        /\ (scenario(9) /\ rule_checks > 0) =>
              /\ names(start_restrictions) = <<"CBD heavy vehicle curfew">>
              /\ pc \in {"checked", "blocked"} /\ trip = <<>>
        /\ (scenario(22) /\ rule_checks > 0) =>
              /\ start_restrictions = <<>> /\ active_restrictions = <<>>
              /\ pc # "blocked"

C7_Witness ==
    /\ pc = "blocked"
    /\ inputs.start_area = "M.G. Road" /\ inputs.vehicle_type = "MHCV"
    /\ inputs.weekday_index = 0 /\ inputs.planned_hour = 9
    /\ restriction_details # <<>>

\* C8: whatever the routing call meets, build_route_deck returns to its
\* caller, after at most one request, with the routed path or else the
\* geodesic path.
C8_RouteFetchNeverPropagates ==
    /\ net_requests <= 1
    /\ net_requests > 0 =>
          /\ pc # "raised"
          /\ route_geom # <<>>
          /\ route_geom[1].deck # <<>>
          /\ route_geom[1].deck[1].source \in {"osrm", "geodesic"}
          /\ route_geom[1].deck[1].source = "geodesic" =>
                route_geom[1].deck[1].path
                    = geodesic_path(route_geom[1].start, route_geom[1].end, 30)

\* the historical table has a row for the start, the destination corridor
StartKnown == Matching(df, inputs.start_area, inputs.start_road) # {}
DestKnown == Matching(df, inputs.dest_area, inputs.dest_road) # {}

\* C9: build_feature_payload returns (None, None) exactly for a corridor
\* without rows; a request with such a corridor stops as insufficient data
\* with no prediction, rule check, route or cost made; a request whose two
\* corridors have rows is never stopped as insufficient data, whatever the
\* snapshots hold.
C9_NotFoundIsExplicit ==
    pc # "sidebar" =>
        /\ StartKnown <=> start_payload # <<>>
        /\ StartKnown <=> start_snapshot # <<>>
        /\ DestKnown <=> dest_payload # <<>>
        /\ DestKnown <=> dest_snapshot # <<>>
        /\ ~(StartKnown /\ DestKnown) =>
              /\ pc \in {"features", "insufficient"}
              /\ predict_calls = 0 /\ rule_checks = 0
              /\ net_requests = 0 /\ trip = <<>>
        /\ (StartKnown /\ DestKnown) => pc # "insufficient"

C9_Witness ==
    /\ pc = "insufficient"
    /\ StartKnown /\ ~DestKnown
    /\ start_snapshot[1]["Traffic Volume"] = 0

\* C10: a payload that lacks a column of the feature schema never yields a
\* prediction: predict_metrics ends in an error.
C10_MissingFeatureFailsLoudly ==
    (predict_calls > 0 /\ FeatureSet \ DOMAIN start_payload[1] # {}) =>
        /\ start_prediction.status = "error"
        /\ pc = "raised"

\* the rows of S that hold the latest Date of S
LatestRows(table, S) ==
    {i \in S : \A j \in S : DateKey(table[j]["Date"]) <= DateKey(table[i]["Date"])}

\* the last of them in the row order of the table
LastRow(S) == CHOOSE i \in S : \A j \in S : j <= i

\* C11: for a corridor with rows, the snapshot build_feature_payload returns
\* is a matching row with the latest Date, and of the rows sharing that Date
\* it is the one that comes last in the table.
C11_LatestSnapshotStableTies ==
    pc = "features" =>
        /\ StartKnown =>
              LET latest == LatestRows(df, Matching(df, inputs.start_area, inputs.start_road))
              IN  /\ \E i \in latest : start_snapshot = <<df[i]>>
                  /\ start_snapshot = <<df[LastRow(latest)]>>
        /\ DestKnown =>
              LET latest == LatestRows(df, Matching(df, inputs.dest_area, inputs.dest_road))
              IN  /\ \E i \in latest : dest_snapshot = <<df[i]>>
                  /\ dest_snapshot = <<df[LastRow(latest)]>>

\* the class order Mini < LCV < MHCV < HCV
VehicleRank(v) ==
    CASE v = "Mini" -> 1 [] v = "LCV" -> 2 [] v = "MHCV" -> 3 [] v = "HCV" -> 4

\* C12: suggest_vehicle_type gives Mini up to 1.5 t, LCV above 1.5 t up to
\* 3.5 t, MHCV above 3.5 t up to 7.5 t and HCV above 7.5 t, and a heavier
\* payload never gets a lower class.
C12_SuggestBreakpointsMonotonic ==
    (call.fn = "suggest_vehicle_type" /\ returned # <<>>) =>
        LET t == call.payload_tons
            v == returned[1]
        IN  /\ v = "Mini" <=> t <= 150
            /\ v = "LCV" <=> (150 < t /\ t <= 350)
            /\ v = "MHCV" <=> (350 < t /\ t <= 750)
            /\ v = "HCV" <=> 750 < t
            /\ \A u \in 0 .. MaxPayload :
                  u >= t => VehicleRank(suggest_vehicle_type(u)) >= VehicleRank(v)

C12_Witness ==
    /\ call.fn = "suggest_vehicle_type" /\ call.payload_tons = 151
    /\ returned = <<"LCV">>

\* C13: resolve_vehicle_type returns the explicit choice when one is given,
\* whatever the payload, and the suggestion for the payload when none is
\* given (None, or the empty string, which names no class).
C13_ExplicitChoicePreferred ==
    (call.fn = "resolve_vehicle_type" /\ returned # <<>>) =>
        LET c == call.user_choice
            given == c # <<>> /\ c # <<"">>
        IN  /\ given => returned[1] = c[1]
            /\ ~given => returned[1] = suggest_vehicle_type(call.payload_tons)
            /\ (given /\ c[1] # suggest_vehicle_type(call.payload_tons))
                  => returned[1] # suggest_vehicle_type(call.payload_tons)

C13_Witness ==
    /\ call.fn = "resolve_vehicle_type" /\ call.user_choice = <<"Mini">>
    /\ call.payload_tons = 900
    /\ returned = <<"Mini">>

\* C14: the estimated cost is (distance x per-km rate + adjusted minutes / 60
\* x per-hour rate) x priority surcharge; it grows strictly with the distance,
\* the adjusted minutes held fixed or else the speeds, indexes, vehicle and
\* tier held fixed, and strictly with the surcharge; 10 km by LCV with 30
\* adjusted minutes at standard priority costs 645.
C14_CostFormulaMonotonic ==
    /\ (call.fn = "cost" /\ returned # <<>>) =>
          LET d == call.distance_km
              m == call.adjusted_minutes
              v == call.vehicle_type
              p == call.service_priority
              c == returned[1]
          IN  /\ c.distance_cost = (d * VEHICLE_COST_PER_KM[v]) \div 10
              /\ c.time_cost = (m * VEHICLE_COST_PER_HOUR[v]) \div 600
              /\ c.estimated_cost
                    = ((c.distance_cost + c.time_cost) * PRIORITY_SURCHARGE[p]) \div 10
              /\ \A d2 \in DrawnDistances :
                    d2 > d => cost_figures(d2, m, v, p).estimated_cost > c.estimated_cost
              /\ \A p2 \in DOMAIN PRIORITY_SURCHARGE :
                    PRIORITY_SURCHARGE[p2] > PRIORITY_SURCHARGE[p]
                        => cost_figures(d, m, v, p2).estimated_cost > c.estimated_cost
              /\ (d = 10000 /\ m = 30000 /\ v = "LCV" /\ p = "Standard (4h window)")
                    => /\ c.distance_cost = 42000 /\ c.time_cost = 22500
                       /\ c.estimated_cost = 64500
    /\ (call.fn = "trip" /\ returned # <<>>) =>
          LET v == call.vehicle_type
              p == call.service_priority
              total(d, q) ==
                  cost_figures(d, time_figures(d, call.start_speed, call.dest_speed,
                                               call.start_tti, call.dest_tti,
                                               v).adjusted_minutes, v, q).estimated_cost
              c == returned[1].cost
          IN  /\ c.estimated_cost
                    = (((call.distance_km * VEHICLE_COST_PER_KM[v]) \div 10
                        + (returned[1].time.adjusted_minutes * VEHICLE_COST_PER_HOUR[v])
                              \div 600) * PRIORITY_SURCHARGE[p]) \div 10
              /\ \A d2 \in DrawnDistances :
                    d2 > call.distance_km => total(d2, p) > c.estimated_cost
              /\ \A p2 \in DOMAIN PRIORITY_SURCHARGE :
                    PRIORITY_SURCHARGE[p2] > PRIORITY_SURCHARGE[p]
                        => total(call.distance_km, p2) > c.estimated_cost

C14_Witness ==
    /\ call.fn = "cost" /\ call.distance_km = 10000 /\ call.adjusted_minutes = 30000
    /\ call.vehicle_type = "LCV" /\ call.service_priority = "Standard (4h window)"
    /\ returned # <<>> /\ returned[1].estimated_cost = 64500

Abs(n) == IF n >= 0 THEN n ELSE 0 - n

\* the control points of the congestion curve: index in units of 0.0001,
\* congestion in tenths of a percent
ControlPoints == << <<10000, 300>>, <<12000, 550>>, <<14000, 800>>, <<16000, 1000>> >>

\* C15: implied_congestion_pct lies in [30, 100]; it is 30 for an index up to
\* 1.0 and 100 for an index from 1.6 on; between two neighbouring control
\* points it is the linear interpolation (to the one decimal reported), and
\* index 1.3 gives 67.5.
C15_CongestionClampedInterpolation ==
    (call.fn = "metrics" /\ returned # <<>>) =>
        LET x == call.travel_time_index
            pct == returned[1].implied_congestion_pct
        IN  /\ 300 <= pct /\ pct <= 1000
            /\ x <= 10000 => pct = 300
            /\ x >= 16000 => pct = 1000
            /\ \A k \in 1 .. Len(ControlPoints) - 1 :
                  LET x0 == ControlPoints[k][1]
                      y0 == ControlPoints[k][2]
                      x1 == ControlPoints[k + 1][1]
                      y1 == ControlPoints[k + 1][2]
                  IN  (x0 <= x /\ x <= x1) =>
                          2 * Abs(pct * (x1 - x0) - (y0 * (x1 - x0) + (x - x0) * (y1 - y0)))
                              <= x1 - x0
            /\ x = 13000 => pct = 675

C15_Witness ==
    /\ call.fn = "metrics" /\ call.travel_time_index = 20000
    /\ returned # <<>> /\ returned[1].implied_congestion_pct = 1000

\* C16: for a departure hour of 0..23 and a non-negative duration the label
\* HH:MM has HH in 00..23 and MM in 00..59 and shows the departure time plus
\* the duration rounded to whole minutes, less a whole number of days.
C16_ArrivalWrapsAtMidnight ==
    (call.fn = "arrival_time_label" /\ returned # <<>>) =>
        LET label == returned[1]
            HH == label[1] * 10 + label[2]
            MM == label[3] * 10 + label[4]
            m == call.duration_minutes
            \* the whole number of minutes nearest to m, the even one of two
            rounded == CHOOSE n \in {m \div 1000, m \div 1000 + 1} :
                           \/ 2 * Abs(1000 * n - m) < 1000
                           \/ 2 * Abs(1000 * n - m) = 1000 /\ n % 2 = 0
            total == call.depart_hour * 60 + rounded
        IN  /\ \A i \in 1 .. 4 : label[i] \in 0 .. 9
            /\ HH \in 0 .. 23 /\ MM \in 0 .. 59
            /\ \E days \in 0 .. (total \div 1440) : total = days * 1440 + HH * 60 + MM

C16_Witness ==
    /\ call.fn = "arrival_time_label"
    /\ call.depart_hour = 23 /\ call.duration_minutes = 1440500
    /\ returned = << <<2, 3, 0, 0>> >>

\* C17: get_coords returns the same coordinates for every query of one
\* unknown area name, in the same run or in another, and coordinates that are
\* offsets from the city-centre anchor.
C17_UnknownNameStableCoords ==
    \A i, j \in DOMAIN geocoded :
        (geocoded[i].area = geocoded[j].area /\ geocoded[i].area \in UnknownNames)
            => /\ geocoded[i].coords = geocoded[j].coords
               /\ Abs(geocoded[i].coords.lat - DEFAULT_LAT) <= 25000
               /\ Abs(geocoded[i].coords.lon - DEFAULT_LON) <= 25000

\* C18: no step of a session changes the shared rule list or a field of a
\* rule in it, and whatever the other sessions do meanwhile, check_route
\* gives each session the rules it gives for that context when run alone.
C18_RegistryUnchangedByRequests ==
    /\ [][registry' = registry]_vars
    /\ [](/\ registry = ACTIVE_RULES
          /\ \A e \in DOMAIN evals :
                evals[e].pc \in {"render", "stopped", "passed"}
                    => evals[e].out = check_route(SessionCtx(e)))

C18_Witness ==
    /\ evals # <<>>
    /\ evals[1].pc = "checking" /\ evals[1].i = 2 /\ evals[1].out # <<>>
    /\ evals[2].pc = "stopped" /\ Len(evals[2].details) = 2

\* C19: a composed trip has a distance of at least 0.5 km, which is 3.5 km
\* when the geodesic distance of the two areas is under 0.5 km, as it is for a
\* trip inside one area; an average speed of at least 10 km/h; and a buffer of
\* max(0, adjusted_minutes - base_minutes), never negative.  Minutes and costs
\* are not negative either.
C19_CostInputsNonNegative ==
    trip # <<>> =>
        LET t == trip[1]
        IN  /\ t.distance_km >= 500
            /\ inputs.start_area = inputs.dest_area => t.distance_km = 3500
            /\ \A a \in KnownAreas :
                  /\ compute_distance_km(inputs.start_area, a) >= 500
                  /\ compute_distance_km(a, a) = 3500
            /\ t.avg_speed2 >= 2000
            /\ t.avg_speed2 = Max2(2000, start_snapshot[1]["Average Speed"]
                                            + dest_snapshot[1]["Average Speed"])
            /\ t.buffer_minutes >= 0
            /\ t.buffer_minutes = Max2(0, t.adjusted_minutes - t.base_minutes)
            /\ t.base_minutes >= 0 /\ t.adjusted_minutes >= 0
            /\ t.distance_cost >= 0 /\ t.time_cost >= 0 /\ t.estimated_cost >= 0

C19_Witness ==
    /\ trip # <<>>
    /\ inputs.start_area = inputs.dest_area
    /\ start_snapshot[1]["Average Speed"] + dest_snapshot[1]["Average Speed"] < 2000
    /\ trip[1].adjusted_minutes < trip[1].base_minutes
    /\ trip[1].buffer_minutes = 0

====
